---- MODULE Spec2Model ----
(***************************************************************************)
(* rx-rs: a minimal regular-expression engine.                             *)
(*   parse.rs     parse_re: pattern text -> Vec<Matcher>                   *)
(*   rx_match.rs  Re::test_internal / Re::backtrack: backtracking matcher, *)
(*                test_re: the entry point.                                *)
(* Characters are one-element strings; a &str is a sequence of characters. *)
(***************************************************************************)
EXTENDS Integers, Sequences, FiniteSets, TLC

VARIABLES
    re,      \* test_re / parse_re argument `re`
    pc,      \* position of the run: "parse", "parsed", "match", "done", "panic"
    k,       \* number of characters the `for next in re.chars()` iterator has yielded
    i,       \* parse_re's local `i`
    stack,   \* parse_re's local `stack`: Vec<Vec<Matcher>>
    parsed,  \* value returned by parse_re (Result<Vec<Matcher>, String>)
    s,       \* test_re argument `s`, as the Vec<char> `chars`
    calls,   \* activations of Re::test_internal, outermost first
    result   \* value returned by test_re (Result<Option<usize>, String>)

vars == <<re, pc, k, i, stack, parsed, s, calls, result>>

(***************************************************************************)
(* Bounds of the model.                                                    *)
(***************************************************************************)
MaxPatLen == 5
MaxSubLen == 2
MaxFairPatLen == 4      \* patterns of the runs checked for termination

PatternAlphabet == {"a", ".", "\\", "(", ")", "?", "*", "+"}
SubjectAlphabet == {"a", "b"}

SeqsUpTo(S, n) == UNION {[1..m -> S] : m \in 0..n}

\* Patterns and subjects of the repository's tests (parse.rs 131-211,
\* rx_match.rs 185-222), with further subjects for the same patterns, and
\* further patterns longer than MaxPatLen: an optional group in front of a
\* literal, two escapes, a two-byte character before a backslash, a
\* ZeroOrMore group in front of literals, and nested ZeroOrMore groups.
TestCases ==
    { << <<"a","b","?","c">>, <<"a","b","c">> >>,
      << <<"a","b","?","c">>, <<"a","c">> >>,
      << <<"a","b","*","c","*">>, <<"a","b","b","c","c">> >>,
      << <<"a","(","b","c","d",")","c">>, <<"a","b","c","d","c">> >>,
      << <<"a","b","(","c","d",")","c">>, <<"a","b","c","d","c">> >>,
      << <<"a","(","b","c","d",")","?","c">>, <<"a","c">> >>,
      << <<"a","(","b","c","d",")","?","c">>, <<"a","b","c","d","c">> >>,
      << <<"a","(","b","c","d",")","?","c">>, <<"a","b","c","c">> >>,
      << <<"a",".","*","c">>, <<"a","b","c">> >>,
      << <<"a","b","c","*","c">>, <<"a","b","c">> >>,
      << <<"a","b","+","c">>, <<"a","c">> >>,
      << <<"a","b","+","c">>, <<"a","b","b","c">> >>,
      << <<"b","c">>, <<"a","b","c">> >>,
      << <<"a","(","b","c",")","?","d">>, <<"a","d">> >>,
      << <<"(","a","b",")","?","c">>, <<"a","c">> >>,
      << <<"\\","a","\\","b","c","d">>, <<"a","c">> >>,
      << <<"a","b","*","c","*">>, <<"a","b","b","b","b","b","c","c","c","c">> >>,
      << <<"a",".","*","b","c">>, <<"a","b","c","b","b">> >>,
      << <<"(","a","*",")","a","b">>, <<"a","a","b">> >>,
      << <<"(","a","*",")","*">>, <<"a","a","b">> >>,
      << <<"(","(",")","*",")","*">>, <<"a">> >>,
      << <<"(","(","a",")","*",")","*","b">>, <<"a","a","b">> >>,
      << <<"e'","\\">>, <<>> >> }

Patterns == SeqsUpTo(PatternAlphabet, MaxPatLen) \cup {tc[1] : tc \in TestCases}
SubjectsFor(p) ==
    SeqsUpTo(SubjectAlphabet, MaxSubLen) \cup {tc[2] : tc \in {t \in TestCases : t[1] = p}}

(***************************************************************************)
(* parse.rs: data types                                                    *)
(***************************************************************************)
ExactlyOne == "ExactlyOne"
ZeroOrOne  == "ZeroOrOne"
ZeroOrMore == "ZeroOrMore"
Quantifier == {ExactlyOne, ZeroOrOne, ZeroOrMore}

\* struct Matcher { quantifier, matcher_kind }; matcher_kind is flattened into
\* kind / c (Element's char) / items (Group's Vec<Matcher>).
wildcard(q)   == [quantifier |-> q, kind |-> "Wildcard", c |-> "", items |-> <<>>]
element(c, q) == [quantifier |-> q, kind |-> "Element",  c |-> c,  items |-> <<>>]
group(items, q) == [quantifier |-> q, kind |-> "Group",  c |-> "", items |-> items]

\* String::len() of one char: its UTF-8 width. "e'" stands for U+00E9.
Utf8Len(c) == IF c = "e'" THEN 2 ELSE 1

RECURSIVE StrLen(_)
\* str::len(): the length in bytes
StrLen(str) == IF str = <<>> THEN 0 ELSE Utf8Len(Head(str)) + StrLen(Tail(str))

\* Results
Pending   == [tag |-> "Pending"]
Err(msg)  == [tag |-> "Err", msg |-> msg]
OkNodes(v) == [tag |-> "Ok", nodes |-> v]

BadEscape          == "Bad escape character at index"
UnmatchedClose     == "No group to close at index"
DanglingQuantifier == "Quantifier must follow an unqualified element or group"
UnmatchedOpen      == "Unmatched groups in regular expression"

(***************************************************************************)
(* parse.rs: parse_re                                                      *)
(***************************************************************************)
Init ==
    /\ re \in Patterns
    /\ pc = "parse"
    /\ k = 0
    /\ i = 0
    /\ stack = << <<>> >>
    /\ parsed = Pending
    /\ s = <<>>
    /\ calls = <<>>
    /\ result = Pending

next == re[k + 1]
Reading(c) == pc = "parse" /\ k < Len(re) /\ next = c

\* stack.last_mut().unwrap().push(m)
PushLast(st, m) == [st EXCEPT ![Len(st)] = Append(@, m)]
\* stack.last_mut().unwrap().last_mut().unwrap().quantifier = q
SetLastQuantifier(st, q) ==
    [st EXCEPT ![Len(st)] = [@ EXCEPT ![Len(@)] = [@ EXCEPT !.quantifier = q]]]

\* the arm keeps parsing: the iterator advances by one, i by di
Continue(st, di) ==
    /\ stack' = st
    /\ i' = i + di
    /\ k' = k + 1
    /\ UNCHANGED <<re, pc, parsed, s, calls, result>>

\* return Err(msg) from parse_re
ParseFail(msg) ==
    /\ parsed' = Err(msg)
    /\ pc' = "parsed"
    /\ UNCHANGED <<re, k, i, stack, s, calls, result>>

\* an unwrap() of None, an index out of range, an arithmetic overflow
Panic ==
    /\ pc' = "panic"
    /\ UNCHANGED <<re, k, i, stack, parsed, s, calls, result>>

ParseWildcard ==
    /\ Reading(".")
    /\ Continue(PushLast(stack, wildcard(ExactlyOne)), 1)

ParseEscape ==
    /\ Reading("\\")
    /\ IF i + 1 >= StrLen(re)
       THEN ParseFail(BadEscape)
       ELSE IF i + 2 > Len(re)
            THEN Panic      \* re.chars().nth(i + 1) is None
            ELSE Continue(PushLast(stack, element(re[i + 2], ExactlyOne)), 2)

ParseOpen ==
    /\ Reading("(")
    /\ Continue(Append(stack, <<>>), 1)

ParseClose ==
    /\ Reading(")")
    /\ IF Len(stack) <= 1
       THEN ParseFail(UnmatchedClose)
       ELSE LET states == stack[Len(stack)]
                popped == SubSeq(stack, 1, Len(stack) - 1)
            IN Continue(PushLast(popped, group(states, ExactlyOne)), 1)

\* SetQuantifierArm without the test of the last node's quantifier
SetQuantifierArmUnchecked(q) ==
    LET level == stack[Len(stack)] IN
    IF level = <<>>
    THEN Panic
    ELSE Continue(SetLastQuantifier(stack, q), 1)

\* the `?` and `*` arms: lines 78-87 and 88-97
SetQuantifierArm(q) ==
    LET level == stack[Len(stack)] IN
    IF level = <<>>
    THEN Panic              \* last_mut() is None
    ELSE IF level[Len(level)].quantifier # ExactlyOne
         THEN ParseFail(DanglingQuantifier)
         ELSE Continue(SetLastQuantifier(stack, q), 1)

ParseZeroOrOne ==
    /\ Reading("?")
    /\ SetQuantifierArm(ZeroOrOne)

ParseZeroOrMore ==
    /\ Reading("*")
    /\ SetQuantifierArm(ZeroOrMore)

\* ParseOneOrMore requantifying the last node instead of appending a copy
ParseOneOrMoreInPlace ==
    /\ Reading("+")
    /\ SetQuantifierArm(ZeroOrMore)

ParseOneOrMore ==
    /\ Reading("+")
    /\ LET level == stack[Len(stack)] IN
       IF level = <<>>
       THEN Panic           \* last_mut() is None
       ELSE LET last_elem == level[Len(level)] IN
            IF last_elem.quantifier # ExactlyOne
            THEN ParseFail(DanglingQuantifier)
            ELSE LET zero_or_more_copy == [last_elem EXCEPT !.quantifier = ZeroOrMore]
                 IN Continue(PushLast(stack, zero_or_more_copy), 1)

ParseElement ==
    /\ pc = "parse" /\ k < Len(re)
    /\ next \notin {".", "\\", "(", ")", "?", "*", "+"}
    /\ Continue(PushLast(stack, element(next, ExactlyOne)), 1)

ParseEnd ==
    /\ pc = "parse" /\ k = Len(re)
    /\ IF Len(stack) # 1
       THEN ParseFail(UnmatchedOpen)
       ELSE /\ parsed' = OkNodes(stack[1])
            /\ stack' = <<>>
            /\ pc' = "parsed"
            /\ UNCHANGED <<re, k, i, s, calls, result>>

ParseNext ==
    \/ ParseWildcard
    \/ ParseEscape
    \/ ParseOpen
    \/ ParseClose
    \/ ParseZeroOrOne
    \/ ParseZeroOrMore
    \/ ParseOneOrMore
    \/ ParseElement
    \/ ParseEnd

(***************************************************************************)
(* rx_match.rs: Re, BacktrackState                                         *)
(***************************************************************************)
\* struct BacktrackState
BacktrackState(b, m, cs) == [is_backtrackable |-> b, matcher |-> m, consumptions |-> cs]

\* Result<(bool, usize), String>
OkMatch(b, n) == [tag |-> "Ok", is_match |-> b, n |-> n]

\* Re::new. An Option is a sequence of length 0 or 1. Besides the fields of
\* struct Re, an activation of test_internal holds its argument `s`, its
\* position `at` ("loop": head of the while loop, "call": inside
\* matches_string_at_index waiting for a group's test_internal, "returned"),
\* the ZeroOrMore arm's local `backtrack_state`, and the value it returned.
new(states) ==
    [i |-> 0, queue |-> states, current_state |-> <<>>, backtrack_stack |-> <<>>,
     s |-> <<>>, at |-> "loop", backtrack_state |-> <<>>, ret |-> Pending]

\* self.current_state = self.queue.pop_front()
PopFront(R) ==
    IF R.queue = <<>>
    THEN [R EXCEPT !.current_state = <<>>]
    ELSE [R EXCEPT !.current_state = <<Head(R.queue)>>, !.queue = Tail(R.queue)]

\* self.queue.push_front(m)
PushFront(R, m) == [R EXCEPT !.queue = <<m>> \o @]

\* Re::new(items).test_internal(slice), up to the head of the while loop
Enter(states, slice) == PopFront([new(states) EXCEPT !.s = slice])

Sum(cs) == IF cs = <<>> THEN 0 ELSE LET f[n \in 0..Len(cs)] == IF n = 0 THEN 0 ELSE f[n - 1] + cs[n] IN f[Len(cs)]

Last(q) == q[Len(q)]
Front(q) == SubSeq(q, 1, Len(q) - 1)

\* matches_string_at_index recurses into test_internal: a Group inside the subject
IsGroupCall(matcher, str, idx) == idx < Len(str) /\ matcher.kind = "Group"

\* matches_string_at_index, the arms that return at once
matches_string_at_index(matcher, str, idx) ==
    IF idx >= Len(str)
    THEN OkMatch(FALSE, 0)
    ELSE IF matcher.kind = "Wildcard"
         THEN OkMatch(TRUE, 1)
         ELSE IF matcher.c = str[idx + 1] THEN OkMatch(TRUE, 1) ELSE OkMatch(FALSE, 0)

RECURSIVE BacktrackLoopKeepsEmpty(_)
\* BacktrackLoop without the test `consumptions.len() == 0`: a retryable frame
\* with nothing left to give back is taken as the resumption point
BacktrackLoopKeepsEmpty(R) ==
    IF R.backtrack_stack = <<>>
    THEN [R |-> R, could_backtrack |-> FALSE]
    ELSE LET top == Last(R.backtrack_stack)
             popped == [R EXCEPT !.backtrack_stack = Front(@)]
         IN IF top.is_backtrackable
            THEN LET n == IF top.consumptions = <<>> THEN 0 ELSE Last(top.consumptions)
                 IN [R |-> [popped EXCEPT
                              !.i = @ - n,
                              !.backtrack_stack = Append(@,
                                  BacktrackState(top.is_backtrackable, top.matcher,
                                      IF top.consumptions = <<>> THEN <<>>
                                      ELSE Front(top.consumptions)))],
                     could_backtrack |-> TRUE]
            ELSE BacktrackLoopKeepsEmpty([PushFront(popped, top.matcher) EXCEPT
                                   !.i = @ - Sum(top.consumptions)])

\* Re::backtrack over BacktrackLoopKeepsEmpty
backtrackKeepsEmpty(R) ==
    LET b == BacktrackLoopKeepsEmpty(PushFront(R, R.current_state[1]))
    IN IF b.could_backtrack
       THEN [R |-> PopFront(b.R), could_backtrack |-> TRUE]
       ELSE b

RECURSIVE BacktrackLoopAllAtOnce(_)
\* BacktrackLoop giving back every repetition of the retryable frame at once
BacktrackLoopAllAtOnce(R) ==
    IF R.backtrack_stack = <<>>
    THEN [R |-> R, could_backtrack |-> FALSE]
    ELSE LET top == Last(R.backtrack_stack)
             popped == [R EXCEPT !.backtrack_stack = Front(@)]
         IN IF top.is_backtrackable
            THEN IF top.consumptions = <<>>
                 THEN BacktrackLoopAllAtOnce(PushFront(popped, top.matcher))
                 ELSE [R |-> [popped EXCEPT
                                !.i = @ - Sum(top.consumptions),
                                !.backtrack_stack = Append(@,
                                    BacktrackState(top.is_backtrackable, top.matcher, <<>>))],
                       could_backtrack |-> TRUE]
            ELSE BacktrackLoopAllAtOnce([PushFront(popped, top.matcher) EXCEPT
                                   !.i = @ - Sum(top.consumptions)])

\* Re::backtrack over BacktrackLoopAllAtOnce
backtrackAllAtOnce(R) ==
    LET b == BacktrackLoopAllAtOnce(PushFront(R, R.current_state[1]))
    IN IF b.could_backtrack
       THEN [R |-> PopFront(b.R), could_backtrack |-> TRUE]
       ELSE b

RECURSIVE BacktrackLoop(_)
\* the while loop of Re::backtrack: the Re it leaves and could_backtrack
BacktrackLoop(R) ==
    IF R.backtrack_stack = <<>>
    THEN [R |-> R, could_backtrack |-> FALSE]
    ELSE LET top == Last(R.backtrack_stack)
             popped == [R EXCEPT !.backtrack_stack = Front(@)]
         IN IF top.is_backtrackable
            THEN IF top.consumptions = <<>>
                 THEN BacktrackLoop(PushFront(popped, top.matcher))
                 ELSE LET n == Last(top.consumptions)
                      IN [R |-> [popped EXCEPT
                                   !.i = @ - n,
                                   !.backtrack_stack = Append(@,
                                       BacktrackState(top.is_backtrackable, top.matcher,
                                                      Front(top.consumptions)))],
                          could_backtrack |-> TRUE]
            ELSE BacktrackLoop([PushFront(popped, top.matcher) EXCEPT
                                   !.i = @ - Sum(top.consumptions)])

\* Re::backtrack without the push_front of the node that failed
backtrackDropsCurrent(R) ==
    LET b == BacktrackLoop(R)
    IN IF b.could_backtrack
       THEN [R |-> PopFront(b.R), could_backtrack |-> TRUE]
       ELSE b

\* Re::backtrack
backtrack(R) ==
    LET b == BacktrackLoop(PushFront(R, R.current_state[1]))
    IN IF b.could_backtrack
       THEN [R |-> PopFront(b.R), could_backtrack |-> TRUE]
       ELSE b

\* return v from test_internal
Return(R, v) == [R EXCEPT !.at = "returned", !.ret = v]

\* self.backtrack_stack.push(bs); self.current_state = self.queue.pop_front()
PushState(R, bs) == PopFront([R EXCEPT !.backtrack_stack = Append(@, bs)])

\* AfterExactlyOne returning the offset left by the unwinding of backtrack
AfterExactlyOneUnwoundOffset(R, m) ==
    IF ~m.is_match
    THEN LET b == backtrack(R)
         IN IF ~b.could_backtrack
            THEN Return(b.R, OkMatch(FALSE, b.R.i))
            ELSE b.R
    ELSE PushState([R EXCEPT !.i = @ + m.n],
                   BacktrackState(FALSE, R.current_state[1], <<m.n>>))

\* AfterExactlyOne pushing a retryable frame
AfterExactlyOneRetryable(R, m) ==
    IF ~m.is_match
    THEN LET index_before_backtracking == R.i
             b == backtrack(R)
         IN IF ~b.could_backtrack
            THEN Return(b.R, OkMatch(FALSE, index_before_backtracking))
            ELSE b.R
    ELSE PushState([R EXCEPT !.i = @ + m.n],
                   BacktrackState(TRUE, R.current_state[1], <<m.n>>))

\* AfterExactlyOne pushing a frame that records no consumption
AfterExactlyOneNoEntry(R, m) ==
    IF ~m.is_match
    THEN LET index_before_backtracking == R.i
             b == backtrack(R)
         IN IF ~b.could_backtrack
            THEN Return(b.R, OkMatch(FALSE, index_before_backtracking))
            ELSE b.R
    ELSE PushState([R EXCEPT !.i = @ + m.n],
                   BacktrackState(FALSE, R.current_state[1], <<0>>))

\* the ExactlyOne arm after matches_string_at_index returned m
AfterExactlyOne(R, m) ==
    IF ~m.is_match
    THEN LET index_before_backtracking == R.i
             b == backtrack(R)
         IN IF ~b.could_backtrack
            THEN Return(b.R, OkMatch(FALSE, index_before_backtracking))
            ELSE b.R
    ELSE PushState([R EXCEPT !.i = @ + m.n],
                   BacktrackState(FALSE, R.current_state[1], <<m.n>>))

\* AfterZeroOrOne without `self.i += consumed`
AfterZeroOrOneNoAdvance(R, m) ==
    PushState(R, BacktrackState(m.is_match /\ m.n > 0, R.current_state[1], <<m.n>>))

\* AfterZeroOrOne pushing a frame that is never retryable
AfterZeroOrOneNotRetryable(R, m) ==
    PushState([R EXCEPT !.i = @ + m.n],
              BacktrackState(FALSE, R.current_state[1], <<m.n>>))

\* the ZeroOrOne arm after matches_string_at_index returned m
AfterZeroOrOne(R, m) ==
    PushState([R EXCEPT !.i = @ + m.n],
              BacktrackState(m.is_match /\ m.n > 0, R.current_state[1], <<m.n>>))

\* the ZeroOrMore arm's local backtrack_state at this iteration of its loop
LocalState(R) ==
    IF R.backtrack_state = <<>>
    THEN BacktrackState(TRUE, R.current_state[1], <<>>)
    ELSE R.backtrack_state[1]

\* the ZeroOrMore arm leaves its loop (lines 143-149 and 153-159)
EndRepeat(R) ==
    LET bs == LocalState(R)
        final == IF bs.consumptions = <<>>
                 THEN BacktrackState(FALSE, bs.matcher, <<0>>)
                 ELSE bs
    IN PushState([R EXCEPT !.backtrack_state = <<>>], final)

\* AfterZeroOrMore pushing the frame after the first repetition
AfterZeroOrMoreOnce(R, m) ==
    IF ~m.is_match \/ m.n = 0
    THEN EndRepeat(R)
    ELSE PushState([R EXCEPT !.i = @ + m.n],
                   BacktrackState(TRUE, R.current_state[1], <<m.n>>))

\* the ZeroOrMore arm after matches_string_at_index returned m
AfterZeroOrMore(R, m) ==
    IF ~m.is_match \/ m.n = 0
    THEN EndRepeat(R)
    ELSE LET bs == LocalState(R)
         IN [R EXCEPT !.i = @ + m.n,
                      !.backtrack_state =
                          <<BacktrackState(bs.is_backtrackable, bs.matcher,
                                           Append(bs.consumptions, m.n))>>]

\* the arm of the match on st.quantifier, after matches_string_at_index returned m
AfterMatch(R, m) ==
    IF m.tag = "Err"
    THEN Return(R, m)       \* the `?` operator
    ELSE IF R.current_state[1].quantifier = ExactlyOne THEN AfterExactlyOne(R, m)
    ELSE IF R.current_state[1].quantifier = ZeroOrOne THEN AfterZeroOrOne(R, m)
    ELSE AfterZeroOrMore(R, m)

(***************************************************************************)
(* rx_match.rs: test_re and the steps of test_internal                     *)
(***************************************************************************)
Top == calls[Len(calls)]
AtLoop(q) ==
    /\ pc = "match"
    /\ Top.at = "loop"
    /\ Top.current_state # <<>>
    /\ Top.current_state[1].quantifier = q

\* the activation on top becomes R; an offset below 0 is a usize underflow
SetTop(R) ==
    IF R.i < 0
    THEN Panic
    ELSE /\ calls' = [calls EXCEPT ![Len(calls)] = R]
         /\ UNCHANGED <<re, pc, k, i, stack, parsed, s, result>>

\* matches_string_at_index on a Group: Re::new(items).test_internal(&s[i..])
CallGroup ==
    /\ calls' = Append([calls EXCEPT ![Len(calls)].at = "call"],
                       Enter(Top.current_state[1].items,
                             SubSeq(Top.s, Top.i + 1, Len(Top.s))))
    /\ UNCHANGED <<re, pc, k, i, stack, parsed, s, result>>

\* let chars = s.chars().collect(); Re::new(parse_re(re)?).test_internal(&chars)
TestReStart ==
    /\ pc = "parsed"
    /\ parsed.tag = "Ok"
    /\ \E chars \in SubjectsFor(re) :
          /\ s' = chars
          /\ calls' = <<Enter(parsed.nodes, chars)>>
    /\ pc' = "match"
    /\ UNCHANGED <<re, k, i, stack, parsed, result>>

\* parse_re(re)? with parse_re returning Err
TestReParseErr ==
    /\ pc = "parsed"
    /\ parsed.tag = "Err"
    /\ result' = parsed
    /\ pc' = "done"
    /\ UNCHANGED <<re, k, i, stack, parsed, s, calls>>

ExactlyOneStep ==
    /\ AtLoop(ExactlyOne)
    /\ IF IsGroupCall(Top.current_state[1], Top.s, Top.i)
       THEN CallGroup
       ELSE SetTop(AfterExactlyOne(Top,
                matches_string_at_index(Top.current_state[1], Top.s, Top.i)))

ZeroOrOneStep ==
    /\ AtLoop(ZeroOrOne)
    /\ IF Top.i >= Len(Top.s)
       THEN SetTop(PushState(Top, BacktrackState(FALSE, Top.current_state[1], <<0>>)))
       ELSE IF IsGroupCall(Top.current_state[1], Top.s, Top.i)
            THEN CallGroup
            ELSE SetTop(AfterZeroOrOne(Top,
                     matches_string_at_index(Top.current_state[1], Top.s, Top.i)))

\* one iteration of the ZeroOrMore arm's loop
ZeroOrMoreStep ==
    /\ AtLoop(ZeroOrMore)
    /\ IF Top.i >= Len(Top.s)
       THEN SetTop(EndRepeat(Top))
       ELSE IF IsGroupCall(Top.current_state[1], Top.s, Top.i)
            THEN CallGroup
            ELSE SetTop(AfterZeroOrMore(Top,
                     matches_string_at_index(Top.current_state[1], Top.s, Top.i)))

\* the while loop ends: Ok((true, self.i))
LoopExit ==
    /\ pc = "match"
    /\ Top.at = "loop"
    /\ Top.current_state = <<>>
    /\ SetTop(Return(Top, OkMatch(TRUE, Top.i)))

\* a group's test_internal returned into matches_string_at_index of its caller
GroupReturn ==
    /\ pc = "match"
    /\ Len(calls) >= 2
    /\ Top.at = "returned"
    /\ LET caller == [calls[Len(calls) - 1] EXCEPT !.at = "loop"]
           R == AfterMatch(caller, Top.ret)
       IN IF R.i < 0
          THEN Panic
          ELSE /\ calls' = Append(SubSeq(calls, 1, Len(calls) - 2), R)
               /\ UNCHANGED <<re, pc, k, i, stack, parsed, s, result>>

\* test_internal returned into test_re (lines 173-178)
TestReReturn ==
    /\ pc = "match"
    /\ Len(calls) = 1
    /\ Top.at = "returned"
    /\ result' = IF Top.ret.tag = "Err" THEN Top.ret
                 ELSE IF Top.ret.is_match THEN [tag |-> "Some", n |-> Top.ret.n]
                 ELSE [tag |-> "None"]
    /\ calls' = <<>>
    /\ pc' = "done"
    /\ UNCHANGED <<re, k, i, stack, parsed, s>>

MatchNext ==
    \/ TestReStart
    \/ TestReParseErr
    \/ ExactlyOneStep
    \/ ZeroOrOneStep
    \/ ZeroOrMoreStep
    \/ LoopExit
    \/ GroupReturn
    \/ TestReReturn

Next == ParseNext \/ MatchNext

Spec == Init /\ [][Next]_vars

(***************************************************************************)
(* The pattern mini-language (literal, wildcard, concatenation, group and  *)
(* the quantifiers): the offsets at which a match of a node sequence that  *)
(* starts at offset p of str can end.                                      *)
(***************************************************************************)
RECURSIVE SeqEnds(_, _, _), OnceEnds(_, _, _), StarEnds(_, _, _)

\* one occurrence of the node m, whatever its quantifier
OnceEnds(m, str, p) ==
    IF m.kind = "Group"
    THEN SeqEnds(m.items, str, p)
    ELSE IF p < Len(str) /\ (m.kind = "Wildcard" \/ m.c = str[p + 1])
         THEN {p + 1}
         ELSE {}

\* any number of occurrences of m, from any offset of P
StarEnds(m, str, P) ==
    LET Q == P \cup UNION {OnceEnds(m, str, p) : p \in P}
    IN IF Q = P THEN P ELSE StarEnds(m, str, Q)

NodeEnds(m, str, p) ==
    IF m.quantifier = ExactlyOne THEN OnceEnds(m, str, p)
    ELSE IF m.quantifier = ZeroOrOne THEN {p} \cup OnceEnds(m, str, p)
    ELSE StarEnds(m, str, {p})

SeqEnds(nodes, str, p) ==
    IF nodes = <<>>
    THEN {p}
    ELSE UNION {SeqEnds(Tail(nodes), str, q) : q \in NodeEnds(Head(nodes), str, p)}

\* The pattern's elements as the mini-language reads them: position p starts
\* an element unless it is the x of an escape \x.
StartsElement(p) ==
    LET f[q \in 1..(Len(re) + 1)] ==
            IF q = 1 THEN TRUE
            ELSE \/ f[q - 1] /\ re[q - 1] # "\\"
                 \/ q >= 3 /\ f[q - 2] /\ re[q - 2] = "\\"
    IN f[p]

QuantifierSymbols == {"?", "*", "+"}
Finished == pc = "done" /\ parsed.tag = "Ok"

(***************************************************************************)
(* Claims                                                                  *)
(***************************************************************************)

\* C1: a reported match is sound: when test_re returns Ok(Some(n)), then
\* 0 <= n <= |s| and the first n elements of s are matched by the pattern.
C1_ReportedMatchIsSound ==
    (Finished /\ result.tag = "Some") =>
        /\ result.n \in 0..Len(s)
        /\ result.n \in SeqEnds(parsed.nodes, s, 0)

\* C2: a reported non-match is complete: test_re returns Ok(None) only when
\* the pattern matches no prefix of s.
C2_NoneOnlyWhenNoPrefixMatches ==
    (Finished /\ result.tag = "None") => SeqEnds(parsed.nodes, s, 0) = {}

\* C3: a quantifier symbol read while the current level is empty makes
\* parse_re return the DanglingQuantifier error, and nothing else.
C3_QuantifierOnEmptyLevelIsErr ==
    [][(/\ pc = "parse" /\ k < Len(re)
        /\ next \in QuantifierSymbols
        /\ stack[Len(stack)] = <<>>)
       => (pc' = "parsed" /\ parsed' = Err(DanglingQuantifier))]_vars

\* C4: an escape \x consumes both positions and appends exactly one node,
\* Literal(x) with ExactlyOne; x is not read a second time.
C4_EscapeConsumesTwoPositions ==
    [][(/\ pc = "parse" /\ k + 1 < Len(re)
        /\ next = "\\"
        /\ StartsElement(k + 1))
       => (/\ pc' = "parse"
           /\ k' = k + 2
           /\ stack' = PushLast(stack, element(re[k + 2], ExactlyOne)))]_vars

\* C5: after a successful parse, matching never returns an Err and never
\* takes an invalid step: no panic, every activation's offset stays within
\* its subject, and a group is only entered on a current node inside it.
C5_MatchTimeInfallible ==
    parsed.tag = "Ok" =>
        /\ pc # "panic"
        /\ result.tag # "Err"
        /\ \A d \in 1..Len(calls) :
              /\ calls[d].ret.tag # "Err"
              /\ calls[d].i \in 0..Len(calls[d].s)
              /\ calls[d].at = "call" =>
                    /\ calls[d].current_state # <<>>
                    /\ calls[d].i < Len(calls[d].s)
              /\ \A j \in 1..Len(calls[d].backtrack_stack) :
                    \A n \in 1..Len(calls[d].backtrack_stack[j].consumptions) :
                        calls[d].backtrack_stack[j].consumptions[n] >= 0

\* C5 witness: inside a group's evaluation a frame has been retracted by
\* backtrack, and the evaluation went on to return.
C5_Witness ==
    /\ pc = "match"
    /\ Len(calls) >= 2
    /\ Top.at = "returned"
    /\ \E j \in 1..Len(Top.backtrack_stack) :
          /\ Top.backtrack_stack[j].is_backtrackable
          /\ Top.backtrack_stack[j].consumptions = <<>>

\* C6: `+` after a node X with ExactlyOne leaves X and every other node
\* unchanged and appends a copy of X with ZeroOrMore; a match of the pair
\* X, X* then holds one occurrence of X at X's offset (for a literal or
\* wildcard X), ab+c does not match ac and matches abbc with length 4.
C6_PlusAppendsCopy ==
    (/\ pc = "parse" /\ k < Len(re)
     /\ next = "+"
     /\ stack[Len(stack)] # <<>>
     /\ Last(stack[Len(stack)]).quantifier = ExactlyOne)
    => LET level == stack[Len(stack)]
           X == Last(level)
       IN /\ pc' = "parse"
          /\ Len(stack') = Len(stack)
          /\ \A l \in 1..(Len(stack) - 1) : stack'[l] = stack[l]
          /\ Len(stack'[Len(stack)]) = Len(level) + 1
          /\ SubSeq(stack'[Len(stack)], 1, Len(level)) = level
          /\ Last(stack'[Len(stack)]).quantifier = ZeroOrMore
          /\ Last(stack'[Len(stack)]).kind = X.kind
          /\ Last(stack'[Len(stack)]).c = X.c
          /\ Last(stack'[Len(stack)]).items = X.items

\* the offset at which frame j of a backtrack stack began
FrameStart(bstack, j) ==
    LET f[n \in 0..(j - 1)] == IF n = 0 THEN 0 ELSE f[n - 1] + Sum(bstack[n].consumptions)
    IN f[j - 1]

C6_AtLeastOneRepetition ==
    \A d \in 1..Len(calls) :
        (calls[d].at = "returned" /\ calls[d].ret.tag = "Ok" /\ calls[d].ret.is_match) =>
            \A j \in 1..(Len(calls[d].backtrack_stack) - 1) :
                LET X == calls[d].backtrack_stack[j]
                    Y == calls[d].backtrack_stack[j + 1]
                    from == FrameStart(calls[d].backtrack_stack, j)
                IN (/\ X.matcher.quantifier = ExactlyOne
                    /\ X.matcher.kind # "Group"
                    /\ Y.matcher = [X.matcher EXCEPT !.quantifier = ZeroOrMore])
                   => /\ X.consumptions = <<1>>
                      /\ from < Len(calls[d].s)
                      /\ X.matcher.kind = "Element" => calls[d].s[from + 1] = X.matcher.c

C6_Examples ==
    /\ (Finished /\ re = <<"a","b","+","c">> /\ s = <<"a","c">>)
           => result = [tag |-> "None"]
    /\ (Finished /\ re = <<"a","b","+","c">> /\ s = <<"a","b","b","c">>)
           => result = [tag |-> "Some", n |-> 4]
    /\ (Finished /\ re = <<"a","+">> /\ result.tag = "Some")
           => (s # <<>> /\ s[1] = "a")

C7_StackedQuantifierFails ==
    (/\ pc = "parse" /\ k < Len(re)
     /\ next \in QuantifierSymbols
     /\ stack[Len(stack)] # <<>>
     /\ Last(stack[Len(stack)]).quantifier # ExactlyOne)
    => (pc' = "parsed" /\ parsed'.tag = "Err" /\ parsed'.msg = DanglingQuantifier)

C7_QuantifierSetOnce ==
    (pc = "parse" /\ pc' = "parse") =>
        \A l \in 1..Len(stack') :
            l <= Len(stack) =>
                \A j \in 1..Len(stack'[l]) :
                    IF j <= Len(stack[l])
                    THEN stack'[l][j].quantifier # stack[l][j].quantifier
                            => (stack[l][j].quantifier = ExactlyOne /\ next \in {"?", "*"})
                    ELSE stack'[l][j].quantifier = ExactlyOne
                            \/ (next = "+" /\ stack'[l][j].quantifier = ZeroOrMore)

C7_NoQuantifierStacking ==
    [][C7_StackedQuantifierFails /\ C7_QuantifierSetOnce]_vars

\* C7 witness: parse_re returned the error on a quantifier symbol that
\* followed an already quantified node
C7_Witness ==
    /\ pc = "parsed"
    /\ parsed = Err(DanglingQuantifier)
    /\ re[k + 1] \in QuantifierSymbols
    /\ Last(stack[Len(stack)]).quantifier # ExactlyOne

\* the level-stack depth the pattern's parentheses ask for after n positions
Depth(n) ==
    1 + Cardinality({p \in 1..n : StartsElement(p) /\ re[p] = "("})
      - Cardinality({p \in 1..n : StartsElement(p) /\ re[p] = ")"})

\* C8: while parsing, the level-stack depth is 1 + (number of `(` read) -
\* (number of `)` read) and at least 1; `)` at depth 1 is UnmatchedClose, end
\* of input at depth > 1 is UnmatchedOpen; parse_re succeeds only for
\* patterns whose parentheses are balanced.
C8_ParenthesisBalance ==
    /\ pc = "parse" => (Len(stack) >= 1 /\ Len(stack) = Depth(k))
    /\ parsed = Err(UnmatchedClose) => (re[k + 1] = ")" /\ Len(stack) = 1)
    /\ parsed = Err(UnmatchedOpen) => (k = Len(re) /\ Len(stack) > 1)
    /\ (pc = "parsed" /\ parsed.tag = "Ok") =>
           /\ Depth(Len(re)) = 1
           /\ \A n \in 0..Len(re) : Depth(n) >= 1

\* C9: BadEscape is returned exactly for a trailing backslash: only on a `\`
\* that starts an escape and is the last element, and always on such a `\`.
C9_BadEscapeOnlyTrailing ==
    /\ parsed = Err(BadEscape) =>
           (k + 1 = Len(re) /\ re[k + 1] = "\\" /\ StartsElement(k + 1))
    /\ (/\ pc \in {"parsed", "panic"}
        /\ k + 1 = Len(re) /\ re[k + 1] = "\\" /\ StartsElement(k + 1))
       => parsed = Err(BadEscape)

\* C10: matches are anchored: when the pattern matches no prefix of the
\* subject, test_re returns Ok(None), also when the pattern matches a
\* substring that starts at a later offset.
C10_NoPrefixMatchIsNone ==
    (Finished /\ SeqEnds(parsed.nodes, s, 0) = {}) => result.tag = "None"

(***************************************************************************)
(* Helpers of the claims about evaluations                                 *)
(***************************************************************************)
\* the node sequence activation d of test_internal was started on
Original(d) == IF d = 1 THEN parsed.nodes ELSE calls[d - 1].current_state[1].items

NoGroup(nodes) == \A n \in 1..Len(nodes) : nodes[n].kind # "Group"

\* a literal or wildcard matches the element at offset p
LeafMatches(m, str, p) == p < Len(str) /\ (m.kind = "Wildcard" \/ m.c = str[p + 1])

RECURSIVE RunLength(_, _, _)
\* the number of consecutive elements from offset p that m matches
RunLength(m, str, p) ==
    IF LeafMatches(m, str, p) THEN 1 + RunLength(m, str, p + 1) ELSE 0

RECURSIVE RefMatch(_, _, _), RefRepeat(_, _, _, _)
\* Reference recursive backtracking matcher for sequences without groups:
\* the end offset of the first match found, or -1. A quantified node tries
\* more repetitions first; an earlier node's choice is changed last.
RefMatch(nodes, str, p) ==
    IF nodes = <<>> THEN p
    ELSE LET m == Head(nodes)
             run == RunLength(m, str, p)
         IN IF m.quantifier = ExactlyOne
            THEN IF run >= 1 THEN RefMatch(Tail(nodes), str, p + 1) ELSE -1
            ELSE IF m.quantifier = ZeroOrOne
                 THEN RefRepeat(nodes, str, p, IF run >= 1 THEN 1 ELSE 0)
                 ELSE RefRepeat(nodes, str, p, run)

\* Head(nodes) repeated n times, then n - 1 times, ... then not at all
RefRepeat(nodes, str, p, n) ==
    LET r == RefMatch(Tail(nodes), str, p + n)
    IN IF r # -1 THEN r
       ELSE IF n = 0 THEN -1
       ELSE RefRepeat(nodes, str, p, n - 1)

\* C11: for a node sequence without groups, test_internal returns (true, n)
\* exactly when the reference backtracking matcher finds a match, with n the
\* length the reference matcher returns; otherwise it returns false.
C11_AgreesWithReferenceMatcher ==
    \A d \in 1..Len(calls) :
        (calls[d].at = "returned" /\ calls[d].ret.tag = "Ok" /\ NoGroup(Original(d))) =>
            LET r == RefMatch(Original(d), calls[d].s, 0)
            IN /\ calls[d].ret.is_match <=> r # -1
               /\ calls[d].ret.is_match => calls[d].ret.n = r

\* C11 witness: an evaluation without groups matched after a retraction: a
\* retryable frame has given back all it had consumed.
C11_Witness ==
    /\ pc = "match"
    /\ Top.at = "returned"
    /\ Top.ret.is_match
    /\ Top.ret.n > 0
    /\ NoGroup(Original(Len(calls)))
    /\ \E j \in 1..Len(Top.backtrack_stack) :
          /\ Top.backtrack_stack[j].is_backtrackable
          /\ Top.backtrack_stack[j].consumptions = <<>>

\* C12: a Group node attempted at offset i succeeds exactly when its
\* sub-sequence matches some prefix of subject[i..], for every i up to and
\* including |subject|: the evaluation of the group on a non-empty rest
\* returns true exactly then, and an attempt at i = |subject| of a group that
\* can match the empty string pushes its frame.
C12_GroupEvaluationOutcome ==
    \A d \in 2..Len(calls) :
        (calls[d].at = "returned" /\ calls[d].ret.tag = "Ok") =>
            (calls[d].ret.is_match <=> SeqEnds(Original(d), calls[d].s, 0) # {})

C12_GroupAtEndOfSubject ==
    (/\ AtLoop(ExactlyOne)
     /\ Top.current_state[1].kind = "Group"
     /\ Top.i = Len(Top.s)
     /\ SeqEnds(Top.current_state[1].items, Top.s, Top.i) # {})
    => /\ pc' = "match"
       /\ Len(calls') = Len(calls)
       /\ calls'[Len(calls)].backtrack_stack =
              Append(Top.backtrack_stack,
                     BacktrackState(FALSE, Top.current_state[1], <<0>>))

C12_GroupSucceedsIffInteriorMatches ==
    /\ [][C12_GroupAtEndOfSubject]_vars
    /\ []C12_GroupEvaluationOutcome

\* test_re as a single thread that always takes its next step, on the
\* patterns up to MaxFairPatLen and those of TestCases
FairInit ==
    /\ Init
    /\ Len(re) <= MaxFairPatLen \/ re \in {tc[1] : tc \in TestCases}

FairSpec == FairInit /\ [][Next]_vars /\ WF_vars(Next)

\* C13: every run of test_re ends: test_internal returns (success when the
\* queue is exhausted, failure when backtracking exhausts the stack) for
\* every compiled sequence and subject; no match or retract steps repeat
\* forever.
C13_Termination == <>(pc \in {"done", "panic"})

\* C13 witness: the evaluation of a ZeroOrMore group that can match the
\* empty string, nested in a group, has returned and test_re is done.
C13_Witness ==
    /\ Finished
    /\ \E n \in 1..Len(parsed.nodes) :
          /\ parsed.nodes[n].kind = "Group"
          /\ \E j \in 1..Len(parsed.nodes[n].items) :
                /\ parsed.nodes[n].items[j].kind = "Group"
                /\ parsed.nodes[n].items[j].quantifier = ZeroOrMore
                /\ SeqEnds(parsed.nodes[n].items[j].items, s, 0) # {}
                /\ 0 \in SeqEnds(parsed.nodes[n].items[j].items, s, 0)
    /\ s # <<>>


RECURSIVE GreedyFailOffset(_, _, _)
\* the offset at which a node of a sequence without groups first fails to
\* match when every quantified node takes all it can and nothing is given
\* back; -1 when no node fails
GreedyFailOffset(nodes, str, p) ==
    IF nodes = <<>> THEN -1
    ELSE LET m == Head(nodes)
             run == RunLength(m, str, p)
         IN IF m.quantifier = ExactlyOne
            THEN IF run >= 1 THEN GreedyFailOffset(Tail(nodes), str, p + 1) ELSE p
            ELSE IF m.quantifier = ZeroOrOne
                 THEN GreedyFailOffset(Tail(nodes), str, p + (IF run >= 1 THEN 1 ELSE 0))
                 ELSE GreedyFailOffset(Tail(nodes), str, p + run)

\* C14 as stated: a failed evaluation returns the offset at which a node
\* first failed to match, not an offset reached later while backtracking.
C14_OffsetOfInitialFailure ==
    \A d \in 1..Len(calls) :
        (/\ calls[d].at = "returned" /\ calls[d].ret.tag = "Ok"
         /\ ~calls[d].ret.is_match
         /\ NoGroup(Original(d)))
        => calls[d].ret.n = GreedyFailOffset(Original(d), calls[d].s, 0)

\* the activation whose arm ran in a step that left a returned activation on top
Returning ==
    IF Len(calls') = Len(calls) THEN Top ELSE calls[Len(calls) - 1]

\* C14 amended: a failed evaluation returns the offset of its last failed
\* attempt: the offset at which an ExactlyOne node failed when no frame of
\* the stack was retryable with a consumption left to give back. Earlier
\* failures at other offsets, from which backtracking resumed, are not
\* reported.
C14_FailedAttemptReturns ==
    (/\ pc = "match" /\ pc' = "match"
     /\ \/ Len(calls') = Len(calls) /\ Top.at = "loop"
        \/ Len(calls') = Len(calls) - 1 /\ Len(calls') >= 1
     /\ calls'[Len(calls')].at = "returned"
     /\ calls'[Len(calls')].ret.tag = "Ok"
     /\ ~calls'[Len(calls')].ret.is_match)
    => /\ Returning.current_state # <<>>
       /\ Returning.current_state[1].quantifier = ExactlyOne
       /\ calls'[Len(calls')].ret.n = Returning.i
       /\ \A j \in 1..Len(Returning.backtrack_stack) :
              ~(/\ Returning.backtrack_stack[j].is_backtrackable
                /\ Returning.backtrack_stack[j].consumptions # <<>>)

C14_OffsetOfLastFailure == [][C14_FailedAttemptReturns]_vars

\* C14 witness: an evaluation without groups failed after backtracking and
\* returned an offset below that of its first failure
C14_Witness ==
    /\ pc = "match"
    /\ Top.at = "returned"
    /\ Top.ret.tag = "Ok"
    /\ ~Top.ret.is_match
    /\ NoGroup(Original(Len(calls)))
    /\ Top.ret.n < GreedyFailOffset(Original(Len(calls)), Top.s, 0)


\* the frame a failed optional attempt of activation R leaves: offset
\* unchanged, one more frame, non-retryable and of zero total consumption,
\* for R's current node, and the next node of the queue current
SkippedOptional(R, after) ==
    /\ after.i = R.i
    /\ after.at = "loop"
    /\ Len(after.backtrack_stack) = Len(R.backtrack_stack) + 1
    /\ Front(after.backtrack_stack) = R.backtrack_stack
    /\ ~Last(after.backtrack_stack).is_backtrackable
    /\ Last(after.backtrack_stack).matcher = R.current_state[1]
    /\ Sum(Last(after.backtrack_stack).consumptions) = 0
    /\ after.current_state = (IF R.queue = <<>> THEN <<>> ELSE <<Head(R.queue)>>)
    /\ after.queue = (IF R.queue = <<>> THEN <<>> ELSE Tail(R.queue))

\* a literal or wildcard with ZeroOrOne is attempted and does not match
C15_FailedLeafAttempt ==
    (/\ AtLoop(ZeroOrOne)
     /\ Top.current_state[1].kind # "Group"
     /\ ~LeafMatches(Top.current_state[1], Top.s, Top.i))
    => /\ pc' = "match"
       /\ Len(calls') = Len(calls)
       /\ SkippedOptional(Top, calls'[Len(calls)])

\* the sub-evaluation of a Group with ZeroOrOne returns failure
C15_FailedGroupAttempt ==
    (/\ pc = "match"
     /\ Len(calls) >= 2
     /\ Top.at = "returned"
     /\ Top.ret.tag = "Ok"
     /\ ~Top.ret.is_match
     /\ calls[Len(calls) - 1].current_state[1].quantifier = ZeroOrOne)
    => /\ pc' = "match"
       /\ Len(calls') = Len(calls) - 1
       /\ SkippedOptional(calls[Len(calls) - 1], calls'[Len(calls) - 1])

\* C15: a failed optional attempt consumes nothing: when the single attempt
\* of a ZeroOrOne node does not match (a Group whose sub-evaluation fails
\* after its interior matched some elements included), the outer offset is
\* unchanged, the pushed frame is non-retryable with zero total consumption,
\* and the next node is attempted at the same offset.
C15_FailedOptionalConsumesNothing ==
    [][C15_FailedLeafAttempt /\ C15_FailedGroupAttempt]_vars


\* the consumptions of the repetitions made so far by the ZeroOrMore arm of R
Done(R) == IF R.backtrack_state = <<>> THEN <<>> ELSE R.backtrack_state[1].consumptions

\* one more repetition, of n elements: the same node stays current and no
\* frame is pushed yet
Repeated(R, after, n) ==
    /\ after.i = R.i + n
    /\ after.at = "loop"
    /\ after.current_state = R.current_state
    /\ after.queue = R.queue
    /\ after.backtrack_stack = R.backtrack_stack
    /\ Done(after) = Append(Done(R), n)

\* the repetitions end: a single frame with consumptions cs is pushed for the
\* node and the next node of the queue is current, at the same offset
Stopped(R, after, cs) ==
    /\ after.i = R.i
    /\ after.at = "loop"
    /\ after.backtrack_state = <<>>
    /\ Len(after.backtrack_stack) = Len(R.backtrack_stack) + 1
    /\ Front(after.backtrack_stack) = R.backtrack_stack
    /\ Last(after.backtrack_stack).matcher = R.current_state[1]
    /\ Last(after.backtrack_stack).consumptions = cs
    /\ Last(after.backtrack_stack).is_backtrackable = (Done(R) # <<>>)
    /\ after.current_state = (IF R.queue = <<>> THEN <<>> ELSE <<Head(R.queue)>>)
    /\ after.queue = (IF R.queue = <<>> THEN <<>> ELSE Tail(R.queue))

\* the entries of the frame pushed after the repetitions Done(R): one per
\* repetition, or the single entry 0 when there was none
Entries(R) == IF Done(R) = <<>> THEN <<0>> ELSE Done(R)

\* a step of the ZeroOrMore arm on a literal or wildcard, or at the end of
\* the subject; Pushed(R) gives the entries of the frame pushed
ZeroOrMoreLeafStep(Pushed(_)) ==
    (/\ AtLoop(ZeroOrMore)
     /\ Top.current_state[1].kind # "Group" \/ Top.i >= Len(Top.s))
    => /\ pc' = "match"
       /\ Len(calls') = Len(calls)
       /\ IF LeafMatches(Top.current_state[1], Top.s, Top.i)
          THEN Repeated(Top, calls'[Len(calls)], 1)
          ELSE /\ Stopped(Top, calls'[Len(calls)], Pushed(Top))
               /\ Top.current_state[1].kind # "Group" =>
                      Len(Done(Top)) = RunLength(Top.current_state[1], Top.s,
                                                 Top.i - Sum(Done(Top)))

\* a step of the ZeroOrMore arm on a Group whose sub-evaluation returned
ZeroOrMoreGroupStep(Pushed(_)) ==
    (/\ pc = "match"
     /\ Len(calls) >= 2
     /\ Top.at = "returned"
     /\ Top.ret.tag = "Ok"
     /\ calls[Len(calls) - 1].current_state[1].quantifier = ZeroOrMore)
    => /\ pc' = "match"
       /\ Len(calls') = Len(calls) - 1
       /\ IF Top.ret.is_match /\ Top.ret.n > 0
          THEN Repeated(calls[Len(calls) - 1], calls'[Len(calls) - 1], Top.ret.n)
          ELSE Stopped(calls[Len(calls) - 1], calls'[Len(calls) - 1],
                       Pushed(calls[Len(calls) - 1]))

C16_Example ==
    (/\ Finished
     /\ re = <<"a","b","*","c","*">>
     /\ s = <<"a","b","b","b","b","b","c","c","c","c">>)
    => result = [tag |-> "Some", n |-> 10]

\* C16 as stated: repetitions of a ZeroOrMore node go on until the node
\* fails, a repetition consumes nothing or the subject ends; the single frame
\* pushed holds one consumption entry per successful repetition; no later
\* node is attempted before; ab*c* against abbbbbcccc consumes 10 elements.
C16_OneEntryPerRepetition ==
    /\ [][ZeroOrMoreLeafStep(Done) /\ ZeroOrMoreGroupStep(Done)]_vars
    /\ []C16_Example

\* C16 amended: as stated, except that after no successful repetition the
\* pushed frame holds the single entry 0 and is non-retryable; after at
\* least one it is retryable and holds one entry per repetition.
C16_GreedyFirstAttempt ==
    /\ [][ZeroOrMoreLeafStep(Entries) /\ ZeroOrMoreGroupStep(Entries)]_vars
    /\ []C16_Example

\* C16 witness: ab*c* against abbbbbcccc returned with five repetitions of b
\* and four of c in their frames
C16_Witness ==
    /\ pc = "match"
    /\ re = <<"a","b","*","c","*">>
    /\ Top.at = "returned"
    /\ Top.ret = OkMatch(TRUE, 10)
    /\ Len(Top.backtrack_stack) = 3
    /\ Top.backtrack_stack[2].consumptions = <<1, 1, 1, 1, 1>>
    /\ Top.backtrack_stack[3].consumptions = <<1, 1, 1, 1>>


\* the frames of a backtrack stack that are retryable with an entry left
Retryable(bstack) ==
    {j \in 1..Len(bstack) : bstack[j].is_backtrackable /\ bstack[j].consumptions # <<>>}

Max(S) == CHOOSE x \in S : \A y \in S : y <= x

\* the sum of all consumptions of frames j..Len(bstack)
SumFrom(bstack, j) ==
    LET f[n \in (j - 1)..Len(bstack)] ==
            IF n = j - 1 THEN 0 ELSE f[n - 1] + Sum(bstack[n].consumptions)
    IN f[Len(bstack)]

\* the nodes a retraction at frame j resumes with: those of the frames above
\* j, then the node that failed, then the queue
Resumed(R, j) ==
    [n \in 1..(Len(R.backtrack_stack) - j) |-> R.backtrack_stack[j + n].matcher]
        \o R.current_state \o R.queue

\* the retraction of the last entry of frame j of R, an activation for the
\* compiled sequence orig
Retracted(R, after, j, orig) ==
    /\ after.at = "loop"
    /\ Len(after.backtrack_stack) = j
    /\ SubSeq(after.backtrack_stack, 1, j - 1) = SubSeq(R.backtrack_stack, 1, j - 1)
    /\ after.backtrack_stack[j] =
           [R.backtrack_stack[j] EXCEPT !.consumptions = Front(@)]
    /\ after.i = R.i - Last(R.backtrack_stack[j].consumptions)
                     - SumFrom(R.backtrack_stack, j + 1)
    /\ after.current_state = <<Head(Resumed(R, j))>>
    /\ after.queue = Tail(Resumed(R, j))
    /\ after.current_state = <<orig[j + 1]>>

\* an ExactlyOne attempt of activation R failed and `after` is what it left
FailedAttempt(R, after, orig) ==
    IF Retryable(R.backtrack_stack) # {}
    THEN Retracted(R, after, Max(Retryable(R.backtrack_stack)), orig)
    ELSE after.at = "returned" /\ ~after.ret.is_match

C17_LeafFails ==
    (/\ AtLoop(ExactlyOne)
     /\ \/ Top.i >= Len(Top.s)
        \/ /\ Top.current_state[1].kind # "Group"
           /\ ~LeafMatches(Top.current_state[1], Top.s, Top.i))
    => /\ pc' = "match"
       /\ Len(calls') = Len(calls)
       /\ FailedAttempt(Top, calls'[Len(calls)], Original(Len(calls)))

C17_GroupFails ==
    (/\ pc = "match"
     /\ Len(calls) >= 2
     /\ Top.at = "returned"
     /\ Top.ret.tag = "Ok"
     /\ ~Top.ret.is_match
     /\ calls[Len(calls) - 1].current_state[1].quantifier = ExactlyOne)
    => /\ pc' = "match"
       /\ Len(calls') = Len(calls) - 1
       /\ FailedAttempt(calls[Len(calls) - 1], calls'[Len(calls) - 1],
                        Original(Len(calls) - 1))

\* C17: a successful call of backtrack stops at the topmost frame that is
\* retryable with an entry left, removes only that frame's last entry,
\* leaves the frame on the stack and the frames below untouched, undoes
\* every frame above it, and resumes with the node that follows the frame's
\* node in pattern order; the call fails only when no such frame exists.
C17_RetractionStep == [][C17_LeafFails /\ C17_GroupFails]_vars

\* C17 witness: in a.*bc against abcbb the second retraction has undone the
\* frame of b above the frame of .*, which keeps two of its four entries
\* under the frame of a, and b is current again
C17_Witness ==
    /\ pc = "match"
    /\ re = <<"a",".","*","b","c">>
    /\ s = <<"a","b","c","b","b">>
    /\ Top.at = "loop"
    /\ Len(Top.backtrack_stack) = 2
    /\ Top.backtrack_stack[1].consumptions = <<1>>
    /\ Top.backtrack_stack[2].is_backtrackable
    /\ Top.backtrack_stack[2].consumptions = <<1, 1>>
    /\ Top.i = 3
    /\ Top.current_state = <<element("b", ExactlyOne)>>
    /\ Top.queue = <<element("c", ExactlyOne)>>


\* every frame of a Group node in `before` is absent from `after` or still
\* there with some of its last entries removed and the others as they were
GroupEntriesWhole(before, after) ==
    \A j \in 1..Len(before.backtrack_stack) :
        before.backtrack_stack[j].matcher.kind = "Group" =>
            \/ Len(after.backtrack_stack) < j
            \/ /\ after.backtrack_stack[j].matcher = before.backtrack_stack[j].matcher
               /\ Len(after.backtrack_stack[j].consumptions)
                      <= Len(before.backtrack_stack[j].consumptions)
               /\ after.backtrack_stack[j].consumptions =
                      SubSeq(before.backtrack_stack[j].consumptions, 1,
                             Len(after.backtrack_stack[j].consumptions))

\* a frame of a Group node with ExactlyOne holds the single entry of its one
\* evaluation and is never retryable
C18_GroupFrames ==
    \A d \in 1..Len(calls) :
        \A j \in 1..Len(calls[d].backtrack_stack) :
            LET f == calls[d].backtrack_stack[j]
            IN (f.matcher.kind = "Group" /\ f.matcher.quantifier = ExactlyOne)
                   => (~f.is_backtrackable /\ Len(f.consumptions) = 1)

\* across every step the entries of the Group frames of every activation are
\* kept whole or undone whole
C18_GroupFramesKeptOrUndone ==
    (pc = "match" /\ pc' = "match" /\ calls # <<>> /\ calls' # <<>>) =>
        \A d \in 1..Len(calls') :
            d <= Len(calls) =>
                GroupEntriesWhole(calls[d], calls'[d])

C18_Examples ==
    /\ (Finished /\ re = <<"(","a","*",")","a","b">> /\ s = <<"a","a","b">>)
           => result = [tag |-> "None"]
    /\ (Finished /\ re = <<"(","a","*",")","a">> /\ s \in {<<"a">>, <<"a","a">>})
           => result = [tag |-> "None"]

\* C18: each consumption entry recorded for a matched Group node is, during
\* outer backtracking, kept whole or undone whole; the outer matcher never
\* retries a Group with a shorter or alternate interior match length, so
\* (a*)ab against aab is reported as not matching.
C18_GroupAtomicity ==
    /\ [][C18_GroupFramesKeptOrUndone]_vars
    /\ [](C18_GroupFrames /\ C18_Examples)

\* C18 witness: (a*)ab against aab: the group took both a, the literal a
\* failed at offset 2 and the evaluation returned false
C18_Witness ==
    /\ pc = "match"
    /\ re = <<"(","a","*",")","a","b">>
    /\ s = <<"a","a","b">>
    /\ Len(calls) = 1
    /\ Top.at = "returned"
    /\ Top.ret = OkMatch(FALSE, 2)


\* activation R is at the head of test_internal's while loop
AtLoopHead(R) == R.at = "loop" /\ R.backtrack_state = <<>>

\* C19: at every iteration of test_internal's main loop the current offset
\* equals the sum of all consumption amounts held in the frames of the
\* backtrack stack, and 0 <= offset <= |subject|.
C19_OffsetAccounting ==
    \A d \in 1..Len(calls) :
        (pc = "match" /\ AtLoopHead(calls[d])) =>
            /\ calls[d].i = SumFrom(calls[d].backtrack_stack, 1)
            /\ 0 <= calls[d].i
            /\ calls[d].i <= Len(calls[d].s)

\* C19 witness: a loop head after a retraction: the frame of a ZeroOrMore
\* literal or wildcard holds fewer entries than the node could take, and the
\* offset is above 0
C19_Witness ==
    /\ pc = "match"
    /\ AtLoopHead(Top)
    /\ Top.i > 0
    /\ \E j \in 1..Len(Top.backtrack_stack) :
          /\ Top.backtrack_stack[j].is_backtrackable
          /\ Top.backtrack_stack[j].matcher.quantifier = ZeroOrMore
          /\ Top.backtrack_stack[j].matcher.kind # "Group"
          /\ Top.backtrack_stack[j].consumptions # <<>>
          /\ Len(Top.backtrack_stack[j].consumptions)
                 < RunLength(Top.backtrack_stack[j].matcher, Top.s,
                             FrameStart(Top.backtrack_stack, j))

\* the nodes of the frames of a backtrack stack, bottom to top
FrameNodes(bstack) == [j \in 1..Len(bstack) |-> bstack[j].matcher]

\* C20: at every iteration of test_internal's main loop the nodes of the
\* backtrack-stack frames (bottom to top), then the current node, then the
\* pending queue (front to back) are the original compiled sequence in its
\* order: backtracking never loses, duplicates or reorders a node.
C20_NodeConservation ==
    \A d \in 1..Len(calls) :
        (pc = "match" /\ AtLoopHead(calls[d])) =>
            FrameNodes(calls[d].backtrack_stack) \o calls[d].current_state \o calls[d].queue
                = Original(d)

\* C20 witness: a loop head after backtracking returned nodes to the queue:
\* the frame on top is retryable and has given back all its entries, above
\* another frame, with a node current and another pending
C20_Witness ==
    /\ pc = "match"
    /\ AtLoopHead(Top)
    /\ Len(Top.backtrack_stack) >= 2
    /\ Last(Top.backtrack_stack).is_backtrackable
    /\ Last(Top.backtrack_stack).consumptions = <<>>
    /\ Top.current_state # <<>>
    /\ Top.queue # <<>>

====
